---- MODULE Spec2Model ----
(***************************************************************************)
(* A model of puzlib's graph searches (src/src/search/*.rs: dfs, bfs,      *)
(* dijkstra, a_star and get_path) and of its union-find structure          *)
(* (src/src/graphs.rs: DisjointSet).                                       *)
(*                                                                         *)
(* The searches are generic over a caller's Graph / Weighted               *)
(* implementation.  The model instantiates them with the adjacency-list    *)
(* graph of the repository's own dijkstra test (struct Layout: for every   *)
(* node a list of (target, weight) pairs), with is_done generalised from   *)
(* one target node to a set of goal nodes.                                 *)
(***************************************************************************)
EXTENDS Integers, Sequences, FiniteSets, Bags, TLC

\* ---------------------------------------------------------------- bounds
\* Nodes are 0..MaxNode.
MaxNode == 2
\* A graph has at most MaxEdges (target, weight) pairs in all its lists.
MaxEdges == 3
\* Edge weights are 0..MaxWeight.
MaxWeight == 1
\* Heuristic values are 0..MaxH.
MaxH == 1
\* A DisjointSet has at most MaxCount elements.
MaxCount == 4
\* A vector given to permutations, combinations, choose or mid has at most
\* MaxLen elements.
MaxLen == 4
\* The arguments of gcd and lcm are 0..MaxArg.
MaxArg == 12

\* usize::MAX, the "not yet reached" distance of dijkstra and a_star.  The
\* model's costs stay far below it (at most MaxEdges * MaxWeight + MaxH).
UsizeMax == 2147483647

Nodes == 0..MaxNode

\* ---------------------------------------------------------------- state
VARIABLES
    graph,      \* Layout.nodes: graph[n] is the list of <<target, weight>> of n
    goals,      \* the nodes for which is_done holds
    start,      \* the start node passed to every search
    heuristic,  \* the heuristic passed to a_star (a function on Nodes)
    calls,      \* how many times in a row the caller calls each search
    fn,         \* the search function now running, or "none"
    to_visit,   \* dfs: the stack (top last); bfs: the queue (front first)
    heap,       \* dijkstra, a_star: the BinaryHeap, a bag of MinHeapState
    dist,       \* dijkstra, a_star: the distance map
    index,      \* dijkstra, a_star: the set of nodes seen
    path,       \* the predecessor map
    expanded,   \* the nodes whose neighbours the running search has looped over
    looped,     \* the node whose neighbours the last step of the running search
                \* looped over (a set of one node), or {} when it looped over none
    ret,        \* ret[f]: the values f has returned so far, in call order
    nodes,      \* DisjointSet.nodes: nodes[idx] is [parent, size, rank]
    version,    \* DisjointSet.version
    sets,       \* the partition of the elements that the union calls made so
                \* far define (kept apart from nodes, to judge it)
    last,       \* the last DisjointSet call: its arguments and what it returned
    iter,       \* the iterator in use (PermutationsIterator, CombinationsIterator
                \* or ChooseIterator): its kind and its fields
    yielded,    \* the items next() returned so far on iter, in order
    exhausted,  \* whether next() returned None on iter
    call        \* the last call of gcd, lcm, Dir::cardinals or Median::mid:
                \* its arguments and what it returned

inputs == <<graph, goals, start, heuristic, calls>>
searchVars == <<graph, goals, start, heuristic, calls, fn, to_visit, heap, dist, index,
                path, expanded, looped, ret>>
dsVars == <<nodes, version, sets, last>>
iterVars == <<iter, yielded, exhausted>>
vars == <<searchVars, dsVars, iterVars, call>>

\* ---------------------------------------------------------------- helpers
Range(s) == {s[i] : i \in DOMAIN s}

Reverse(s) == [i \in 1..Len(s) |-> s[Len(s) + 1 - i]]

\* The empty map (HashMap::new()).
EmptyMap == <<>>

\* HashMap::insert(k, v) on a map kept as a function on its key set.
Insert(m, k, v) == [x \in (DOMAIN m) \cup {k} |-> IF x = k THEN v ELSE m[x]]

\* ---------------------------------------------------------------- the graph
\* Graph::moves of Layout: the targets of the node's list, in list order.
moves(node) == [i \in 1..Len(graph[node]) |-> graph[node][i][1]]

\* Weighted::weight of Layout: the weight of the first pair whose target is next.
weight(cur, next) ==
    LET i == CHOOSE i \in 1..Len(graph[cur]) :
                 /\ graph[cur][i][1] = next
                 /\ \A j \in 1..(i - 1) : graph[cur][j][1] # next
    IN  graph[cur][i][2]

\* Graph::is_done.
is_done(node) == node \in goals

\* The nodes one move away from u, and the nodes reachable from src by
\* following moves (src included).
Succ(u) == Range(moves(u))

RECURSIVE ReachFrom(_)
ReachFrom(seen) ==
    LET more == seen \cup UNION {Succ(u) : u \in seen}
    IN  IF more = seen THEN seen ELSE ReachFrom(more)

Reachable(src) == ReachFrom({src})

\* Option values: None, and Some of a path (dfs, bfs) or of (dist, path).
None == [some |-> FALSE, dist |-> EmptyMap, path |-> <<>>]
SomeOf(d, p) == [some |-> TRUE, dist |-> d, path |-> p]

\* A search that hands back an empty path for "not found".
NotFoundEmptyPath == SomeOf(EmptyMap, <<>>)

\* What a search returns once its frontier is empty.
NotFound == None

\* ---------------------------------------------------------------- get_path
\* The while loop of get_path: found is the vector built so far.  A walk longer
\* than the map has keys is in a cycle that does not hold start: the loop
\* never ends, which the model reports as the vector Diverges.
Diverges == <<-1>>

RECURSIVE Walk(_, _, _)
Walk(m, found, st) ==
    LET cur == found[Len(found)] IN
    IF cur \notin DOMAIN m THEN found
    ELSE LET node == m[cur]
             next == Append(found, node)
         IN  IF node = st THEN next
             ELSE IF Len(next) > Cardinality(DOMAIN m) + 1 THEN Diverges
             ELSE Walk(m, next, st)

\* get_path without its found.reverse().
GetPathNoReverse(m, end, st) == Walk(m, <<end>>, st)

get_path(m, end, st) == Reverse(Walk(m, <<end>>, st))

\* ---------------------------------------------------------------- calls
\* The model calls dfs, bfs, dijkstra and a_star in this order on the same
\* graph and start node, each of them calls times in a row (a_star every time
\* with the same heuristic), and keeps what each call returned in ret.
Functions == <<"dfs", "bfs", "dijkstra", "a_star">>

NextCall(f) ==
    /\ fn = "none"
    /\ Len(ret[f]) < calls
    /\ \A g \in Range(Functions) :
           (\E i, j \in DOMAIN Functions :
                i < j /\ Functions[i] = g /\ Functions[j] = f) => Len(ret[g]) = calls

\* A return: the value is handed to the caller and the locals are dropped.
\* expanded is kept until the next call.
Return(value) ==
    /\ ret' = [ret EXCEPT ![fn] = Append(@, value)]
    /\ fn' = "none"
    /\ to_visit' = <<>>
    /\ heap' = EmptyBag
    /\ dist' = EmptyMap
    /\ index' = {}
    /\ path' = EmptyMap
    /\ looped' = {}
    /\ UNCHANGED expanded

\* ---------------------------------------------------------------- dfs
\* dfs, before its loop.
CallDfs ==
    /\ NextCall("dfs")
    /\ fn' = "dfs"
    /\ path' = EmptyMap
    /\ to_visit' = <<start>>
    /\ expanded' = {}
    /\ looped' = {}
    /\ UNCHANGED <<inputs, heap, dist, index, ret>>

\* The for loop of dfs over mv = moves(node), from its i-th element on:
\* st is [to_visit, path].
RECURSIVE DfsMoves(_, _, _, _)
DfsMoves(node, mv, i, st) ==
    IF i > Len(mv) THEN st
    ELSE DfsMoves(node, mv, i + 1,
                  [to_visit |-> Append(st.to_visit, mv[i]),
                   path |-> Insert(st.path, mv[i], node)])

\* Whether dfs skips the node it popped.
DfsSkips(node, m) == node \in DOMAIN m

\* One iteration of dfs's while loop (or its exit).
DfsStep ==
    /\ fn = "dfs"
    /\ UNCHANGED inputs
    /\ IF to_visit = <<>>
       THEN Return(NotFound)
       ELSE LET node == to_visit[Len(to_visit)]
                rest == SubSeq(to_visit, 1, Len(to_visit) - 1)
            IN  IF DfsSkips(node, path)
                THEN /\ to_visit' = rest
                     /\ looped' = {}
                     /\ UNCHANGED <<fn, path, expanded, ret, heap, dist, index>>
                ELSE IF is_done(node)
                THEN Return(SomeOf(EmptyMap, get_path(path, node, start)))
                ELSE LET st == DfsMoves(node, moves(node), 1,
                                        [to_visit |-> rest, path |-> path])
                     IN  /\ to_visit' = st.to_visit
                         /\ path' = st.path
                         /\ expanded' = expanded \cup {node}
                         /\ looped' = {node}
                         /\ UNCHANGED <<fn, ret, heap, dist, index>>

\* ---------------------------------------------------------------- bfs
\* bfs, before its loop.
CallBfs ==
    /\ NextCall("bfs")
    /\ fn' = "bfs"
    /\ path' = EmptyMap
    /\ to_visit' = <<start>>
    /\ expanded' = {}
    /\ looped' = {}
    /\ UNCHANGED <<inputs, heap, dist, index, ret>>

\* A bfs that never leaves a neighbour out.
BfsNeverSkips(next_move, m) == FALSE

\* Whether bfs leaves out the neighbour next_move.
BfsSkips(next_move, m) == next_move \in DOMAIN m

\* The for loop of bfs over mv = moves(node), from its i-th element on.
RECURSIVE BfsMoves(_, _, _, _)
BfsMoves(node, mv, i, st) ==
    IF i > Len(mv) THEN st
    ELSE IF BfsSkips(mv[i], st.path)
    THEN BfsMoves(node, mv, i + 1, st)
    ELSE BfsMoves(node, mv, i + 1,
                  [to_visit |-> Append(st.to_visit, mv[i]),
                   path |-> Insert(st.path, mv[i], node)])

\* A bfs that tests is_done on every node but the start node.
BfsDoneNotStart(node) == is_done(node) /\ node # start

\* Whether bfs returns on the node it popped.
BfsDone(node) == is_done(node)

\* One iteration of bfs's while loop (or its exit).
BfsStep ==
    /\ fn = "bfs"
    /\ UNCHANGED inputs
    /\ IF to_visit = <<>>
       THEN Return(NotFound)
       ELSE LET node == Head(to_visit)
                rest == Tail(to_visit)
            IN  IF BfsDone(node)
                THEN Return(SomeOf(EmptyMap, get_path(path, node, start)))
                ELSE LET st == BfsMoves(node, moves(node), 1,
                                        [to_visit |-> rest, path |-> path])
                     IN  /\ to_visit' = st.to_visit
                         /\ path' = st.path
                         /\ expanded' = expanded \cup {node}
                         /\ looped' = {node}
                         /\ UNCHANGED <<fn, ret, heap, dist, index>>

\* ---------------------------------------------------------------- the heap
\* A cmp that does not turn the cost order around: a max-heap on cost.
CmpMaxHeap(self, other) ==
    IF self.cost < other.cost THEN "Less"
    ELSE IF self.cost > other.cost THEN "Greater"
    ELSE IF self.node < other.node THEN "Less"
    ELSE IF self.node > other.node THEN "Greater"
    ELSE "Equal"

\* A cmp whose then_with compares the nodes the other way around.
CmpNodeReversed(self, other) ==
    IF other.cost < self.cost THEN "Less"
    ELSE IF other.cost > self.cost THEN "Greater"
    ELSE IF other.node < self.node THEN "Less"
    ELSE IF other.node > self.node THEN "Greater"
    ELSE "Equal"

\* A cmp on the cost alone, without the then_with on the node.
CmpCostOnly(self, other) ==
    IF other.cost < self.cost THEN "Less"
    ELSE IF other.cost > self.cost THEN "Greater"
    ELSE "Equal"

\* MinHeapState::cmp(self, other): other.cost.cmp(self.cost), then
\* self.node.cmp(other.node).
Cmp(self, other) ==
    IF other.cost < self.cost THEN "Less"
    ELSE IF other.cost > self.cost THEN "Greater"
    ELSE IF self.node < other.node THEN "Less"
    ELSE IF self.node > other.node THEN "Greater"
    ELSE "Equal"

\* BinaryHeap::push.
Push(h, node, cost) == h (+) SetToBag({[node |-> node, cost |-> cost]})

\* BinaryHeap::pop returns a greatest item of the heap: the items that pop may
\* return (which of several items that compare Equal it returns is not
\* specified by BinaryHeap).
Greatest(h) == {e \in BagToSet(h) : \A o \in BagToSet(h) : Cmp(e, o) # "Less"}

\* The heap after item e was popped.
Popped(h, e) == h (-) SetToBag({e})

\* index.insert(next_move) with the dist.insert(next_move, usize::MAX) that
\* follows it when the node is new: st has the fields heap, dist, index, path.
Discover(st, next_move) ==
    IF next_move \in st.index THEN st
    ELSE [st EXCEPT !.index = @ \cup {next_move},
                    !.dist = Insert(@, next_move, UsizeMax)]

\* ---------------------------------------------------------------- dijkstra
\* dijkstra, before its loop.
CallDijkstra ==
    /\ NextCall("dijkstra")
    /\ fn' = "dijkstra"
    /\ heap' = Push(EmptyBag, start, 0)
    /\ dist' = Insert(EmptyMap, start, 0)
    /\ index' = {start}
    /\ path' = EmptyMap
    /\ expanded' = {}
    /\ looped' = {}
    /\ UNCHANGED <<inputs, to_visit, ret>>

\* A relaxation on <= for <: a candidate as cheap as the recorded cost wins.
DijkstraImprovesOrEqual(next_cost, recorded) == next_cost <= recorded

\* Whether dijkstra relaxes a neighbour: the candidate against the recorded cost.
DijkstraImproves(next_cost, recorded) == next_cost < recorded

\* A staleness test that never finds an entry stale.
DijkstraNeverStale(cost, recorded) == FALSE

\* A staleness test with >= for >.
DijkstraStaleOrEqual(cost, recorded) == cost >= recorded

\* Whether dijkstra drops the popped entry as stale.
DijkstraStale(cost, recorded) == cost > recorded

\* The for loop of dijkstra over mv = moves(node), from its i-th element on.
RECURSIVE DijkstraMoves(_, _, _, _, _)
DijkstraMoves(node, cost, mv, i, st) ==
    IF i > Len(mv) THEN st
    ELSE LET next_move == mv[i]
             next_cost == cost + weight(node, next_move)
             seen == Discover(st, next_move)
         IN  IF DijkstraImproves(next_cost, seen.dist[next_move])
             THEN DijkstraMoves(node, cost, mv, i + 1,
                      [heap |-> Push(seen.heap, next_move, next_cost),
                       dist |-> Insert(seen.dist, next_move, next_cost),
                       index |-> seen.index,
                       path |-> Insert(seen.path, next_move, node)])
             ELSE DijkstraMoves(node, cost, mv, i + 1, seen)

\* One iteration of dijkstra's while loop (or its exit).
DijkstraStep ==
    /\ fn = "dijkstra"
    /\ UNCHANGED inputs
    /\ IF heap = EmptyBag
       THEN Return(NotFound)
       ELSE \E e \in Greatest(heap) :
            IF is_done(e.node)
            THEN Return(SomeOf(dist, get_path(path, e.node, start)))
            ELSE IF DijkstraStale(e.cost, dist[e.node])
            THEN /\ heap' = Popped(heap, e)
                 /\ looped' = {}
                 /\ UNCHANGED <<fn, to_visit, dist, index, path, expanded, ret>>
            ELSE LET st == DijkstraMoves(e.node, e.cost, moves(e.node), 1,
                               [heap |-> Popped(heap, e), dist |-> dist,
                                index |-> index, path |-> path])
                 IN  /\ heap' = st.heap
                     /\ dist' = st.dist
                     /\ index' = st.index
                     /\ path' = st.path
                     /\ expanded' = expanded \cup {e.node}
                     /\ looped' = {e.node}
                     /\ UNCHANGED <<fn, to_visit, ret>>

\* ---------------------------------------------------------------- a_star
\* The heuristics a caller may pass: the functions from nodes to 0..MaxH.
\* a_star calls its heuristic on start and on nodes it relaxes, so the value
\* on a node that start does not reach is never read: the model has it 0.
Heuristics ==
    {h \in [Nodes -> 0..MaxH] : \A n \in Nodes \ Reachable(start) : h[n] = 0}

\* a_star, before its loop.  A repeated call gets the heuristic of the first.
CallAStar ==
    /\ NextCall("a_star")
    /\ \E h \in Heuristics :
        /\ Len(ret["a_star"]) > 0 => h = heuristic
        /\ heuristic' = h
        /\ heap' = Push(EmptyBag, start, h[start])
    /\ fn' = "a_star"
    /\ dist' = Insert(EmptyMap, start, 0)
    /\ index' = {start}
    /\ path' = EmptyMap
    /\ expanded' = {}
    /\ looped' = {}
    /\ UNCHANGED <<graph, goals, start, calls, to_visit, ret>>

\* A relaxation on <= for <: a candidate as cheap as the recorded cost wins.
AStarImprovesOrEqual(tentative_cost, recorded) == tentative_cost <= recorded

\* Whether a_star relaxes a neighbour: the candidate against the recorded cost.
AStarImproves(tentative_cost, recorded) == tentative_cost < recorded

\* A priority of the heuristic alone, without the cost so far.
AStarPriorityGreedy(tentative_cost, next_move) == heuristic[next_move]

\* The priority a_star pushes a relaxed neighbour with.
AStarPriority(tentative_cost, next_move) == tentative_cost + heuristic[next_move]

\* The for loop of a_star over mv = moves(node), from its i-th element on.
RECURSIVE AStarMoves(_, _, _, _)
AStarMoves(node, mv, i, st) ==
    IF i > Len(mv) THEN st
    ELSE LET next_move == mv[i]
             seen == Discover(st, next_move)
             tentative_cost == seen.dist[node] + weight(node, next_move)
         IN  IF AStarImproves(tentative_cost, seen.dist[next_move])
             THEN AStarMoves(node, mv, i + 1,
                      [heap |-> Push(seen.heap, next_move,
                                     AStarPriority(tentative_cost, next_move)),
                       dist |-> Insert(seen.dist, next_move, tentative_cost),
                       index |-> seen.index,
                       path |-> Insert(seen.path, next_move, node)])
             ELSE AStarMoves(node, mv, i + 1, seen)

\* One iteration of a_star's while loop (or its exit).
AStarStep ==
    /\ fn = "a_star"
    /\ UNCHANGED inputs
    /\ IF heap = EmptyBag
       THEN Return(NotFound)
       ELSE \E e \in Greatest(heap) :
            IF is_done(e.node)
            THEN Return(SomeOf(dist, get_path(path, e.node, start)))
            ELSE LET st == AStarMoves(e.node, moves(e.node), 1,
                               [heap |-> Popped(heap, e), dist |-> dist,
                                index |-> index, path |-> path])
                 IN  /\ heap' = st.heap
                     /\ dist' = st.dist
                     /\ index' = st.index
                     /\ path' = st.path
                     /\ expanded' = expanded \cup {e.node}
                     /\ looped' = {e.node}
                     /\ UNCHANGED <<fn, to_visit, ret>>

\* ---------------------------------------------------------------- inputs
\* An edge <<source, target, weight>>.
Edge == Nodes \X Nodes \X (0..MaxWeight)

\* The <<target, weight>> pairs of the edges of es that leave node n, in order.
RECURSIVE PairsOf(_, _)
PairsOf(es, n) ==
    IF es = <<>> THEN <<>>
    ELSE IF Head(es)[1] = n
    THEN <<(<<Head(es)[2], Head(es)[3]>>)>> \o PairsOf(Tail(es), n)
    ELSE PairsOf(Tail(es), n)

\* The Layout whose lists hold the edges of the list es, in the order of es.
Layout(es) == [n \in Nodes |-> PairsOf(es, n)]

ZeroHeuristic == [n \in Nodes |-> 0]

\* No iterator is in use.
NoIterator ==
    /\ iter = [kind |-> "none"]
    /\ yielded = <<>>
    /\ exhausted = FALSE

\* No function of math.rs, direction.rs or median.rs was called.
NoCall == call = [fn |-> "none"]

\* No DisjointSet is in use while the searches run.
NoDisjointSet ==
    /\ nodes = <<>>
    /\ version = "Size"
    /\ sets = {}
    /\ last = [call |-> "none"]

\* The inputs of the searches: every Layout of at most MaxEdges pairs over the
\* nodes, every start node and every set of goal nodes.  A search reads moves and weight of the nodes
\* it pops only, and every node it pops is reachable from start, so the lists
\* of the nodes that start does not reach are never read: the model has them
\* empty.
Inputs ==
    /\ \E k \in 0..MaxEdges : \E es \in [1..k -> Edge] : graph = Layout(es)
    /\ start \in Nodes
    /\ \A n \in Nodes \ Reachable(start) : graph[n] = <<>>
    /\ goals \in SUBSET Nodes
    /\ heuristic = ZeroHeuristic
    /\ fn = "none"
    /\ to_visit = <<>>
    /\ heap = EmptyBag
    /\ dist = EmptyMap
    /\ index = {}
    /\ path = EmptyMap
    /\ expanded = {}
    /\ looped = {}
    /\ ret = [f \in Range(Functions) |-> <<>>]
    /\ NoDisjointSet
    /\ NoIterator
    /\ NoCall

\* Every search is called once.
Init == Inputs /\ calls = 1

Next ==
    \/ (CallDfs /\ UNCHANGED <<dsVars, iterVars, call>>)
    \/ (DfsStep /\ UNCHANGED <<dsVars, iterVars, call>>)
    \/ (CallBfs /\ UNCHANGED <<dsVars, iterVars, call>>)
    \/ (BfsStep /\ UNCHANGED <<dsVars, iterVars, call>>)
    \/ (CallDijkstra /\ UNCHANGED <<dsVars, iterVars, call>>)
    \/ (DijkstraStep /\ UNCHANGED <<dsVars, iterVars, call>>)
    \/ (CallAStar /\ UNCHANGED <<dsVars, iterVars, call>>)
    \/ (AStarStep /\ UNCHANGED <<dsVars, iterVars, call>>)

Spec == Init /\ [][Next]_vars

\* The searches run on one thread, which takes its next step whenever it has
\* one: a call that can go on does go on.  The graphs are those of Inputs,
\* searched from node 0 for at most one goal.
InitFair ==
    /\ Inputs
    /\ calls = 1
    /\ start = 0
    /\ Cardinality(goals) <= 1

SpecFair == InitFair /\ [][Next]_vars /\ WF_vars(Next)

\* Every search is called twice in a row on the same inputs.
InitTwice == Inputs /\ calls = 2

SpecTwice == InitTwice /\ [][Next]_vars

\* The searches on graphs of one more pair, which leaves room for a node that
\* is reached twice, the second time on a cheaper path, and has a neighbour of
\* its own.  As in the repository's test, the start node is node 0 and is_done
\* holds for one target node at most.
InitRelax ==
    /\ \E k \in 0..(MaxEdges + 1) : \E es \in [1..k -> Edge] : graph = Layout(es)
    /\ start = 0
    /\ \A n \in Nodes \ Reachable(start) : graph[n] = <<>>
    /\ goals \in {g \in SUBSET Nodes : Cardinality(g) <= 1}
    /\ heuristic = ZeroHeuristic
    /\ calls = 1
    /\ fn = "none"
    /\ to_visit = <<>>
    /\ heap = EmptyBag
    /\ dist = EmptyMap
    /\ index = {}
    /\ path = EmptyMap
    /\ expanded = {}
    /\ looped = {}
    /\ ret = [f \in Range(Functions) |-> <<>>]
    /\ NoDisjointSet
    /\ NoIterator
    /\ NoCall

SpecRelax == InitRelax /\ [][Next]_vars

\* ---------------------------------------------------------------- DisjointSet
\* DisjointSet::init_size and DisjointSet::init_rank build the same nodes.
InitNodes(node_count) ==
    [idx \in 0..(node_count - 1) |-> [parent |-> idx, size |-> 1, rank |-> 0]]

\* A find_root that takes one step up: it returns the parent, not the root.
FindRootOneStep(ns, idx) == [root |-> ns[idx].parent, nodes |-> ns]

\* DisjointSet::find_root on the nodes ns: the root it returns and the nodes
\* it leaves (every node on the way then has the root as its parent).
RECURSIVE find_root(_, _)
find_root(ns, idx) ==
    IF ns[idx].parent # idx
    THEN LET up == find_root(ns, ns[idx].parent)
             set == [up.nodes EXCEPT ![idx].parent = up.root]
         IN  [root |-> set[idx].parent, nodes |-> set]
    ELSE [root |-> idx, nodes |-> ns]

\* DisjointSet::order.
order(ns, left, right) ==
    IF version = "Size" /\ ns[left].size < ns[right].size THEN <<right, left>>
    ELSE IF version = "Rank" /\ ns[left].rank < ns[right].rank THEN <<right, left>>
    ELSE <<left, right>>

\* Whether union takes its two roots for one tree already.
SameRoot(left_root, right_root) == left_root = right_root

\* DisjointSet::union on the nodes ns: the value it returns and the nodes it leaves.
union(ns, left, right) ==
    LET l == find_root(ns, left)
        r == find_root(l.nodes, right)
    IN  IF SameRoot(l.root, r.root)
        THEN [value |-> FALSE, nodes |-> r.nodes]
        ELSE LET o == order(r.nodes, l.root, r.root)
                 left_root == o[1]
                 right_root == o[2]
                 linked == [r.nodes EXCEPT ![right_root].parent = left_root]
                 sized == [linked EXCEPT
                              ![left_root].size = @ + linked[right_root].size]
                 bumped == IF sized[left_root].rank = sized[right_root].rank
                           THEN [sized EXCEPT ![left_root].size = @ + 1]
                           ELSE sized
             IN  [value |-> TRUE, nodes |-> bumped]

\* The set of the partition p that holds x.
SetOf(p, x) == CHOOSE c \in p : x \in c

\* A call of find_root.
FindRoot ==
    \E idx \in DOMAIN nodes :
        LET r == find_root(nodes, idx) IN
        /\ nodes' = r.nodes
        /\ last' = [call |-> "find_root", left |-> idx, right |-> idx,
                    value |-> r.root]
        /\ UNCHANGED <<version, sets>>

\* A call of union.
Union ==
    \E left, right \in DOMAIN nodes :
        LET u == union(nodes, left, right) IN
        /\ nodes' = u.nodes
        /\ last' = [call |-> "union", left |-> left, right |-> right,
                    value |-> u.value]
        /\ sets' = (sets \ {SetOf(sets, left), SetOf(sets, right)})
                       \cup {SetOf(sets, left) \cup SetOf(sets, right)}
        /\ UNCHANGED version

\* No search runs while the DisjointSet is in use.
NoSearch ==
    /\ graph = [n \in Nodes |-> <<>>]
    /\ goals = {}
    /\ start = 0
    /\ heuristic = ZeroHeuristic
    /\ calls = 0
    /\ fn = "none"
    /\ to_visit = <<>>
    /\ heap = EmptyBag
    /\ dist = EmptyMap
    /\ index = {}
    /\ path = EmptyMap
    /\ expanded = {}
    /\ looped = {}
    /\ ret = [f \in Range(Functions) |-> <<>>]

\* A DisjointSet fresh from init_size or init_rank.
InitDisjointSet ==
    /\ \E node_count \in 1..MaxCount :
        /\ nodes = InitNodes(node_count)
        /\ sets = {{idx} : idx \in 0..(node_count - 1)}
    /\ version \in {"Size", "Rank"}
    /\ last = [call |-> "none"]
    /\ NoSearch
    /\ NoIterator
    /\ NoCall

NextDisjointSet ==
    \/ (FindRoot /\ UNCHANGED <<searchVars, iterVars, call>>)
    \/ (Union /\ UNCHANGED <<searchVars, iterVars, call>>)

SpecDisjointSet == InitDisjointSet /\ [][NextDisjointSet]_vars

\* ---------------------------------------------------------------- combinatorics
\* The vectors of combinatorics.rs are sequences; Rust counts their elements
\* from 0.
At(v, i) == v[i + 1]

\* Vec::swap(i, j).
Swap(v, i, j) ==
    [x \in DOMAIN v |-> IF x = i + 1 THEN v[j + 1] ELSE IF x = j + 1 THEN v[i + 1] ELSE v[x]]

\* Option<Vec<T>>, what next() returns: None, or Some of an item.
NoItem == [some |-> FALSE, item |-> <<>>]
SomeItem(v) == [some |-> TRUE, item |-> v]

\* PermutationsIterator::new.  (input keeps the slice that new was given.)
PermutationsNew(items) ==
    [kind |-> "permutations", input |-> items, items |-> items, perms |-> {items},
     state |-> [i \in 1..Len(items) |-> 0], first |-> TRUE]

\* A swap partner that is element 0 whatever idx is.
SwapWithFirst(it, idx) == 0

\* The element that PermutationsIterator::next swaps with element idx: element
\* 0 when idx is even, element state[idx] when idx is odd.
SwapWith(it, idx) == IF idx % 2 = 0 THEN 0 ELSE At(it.state, idx)

\* One iteration of the while loop of PermutationsIterator::next.  s holds the
\* iterator, the local idx, and, once the loop is left (done), the value that
\* next returns.
PermutationsIteration(s) ==
    LET it == s.iter
        idx == s.idx
    IN  IF idx >= Len(it.items) THEN [s EXCEPT !.done = TRUE, !.value = NoItem]
        ELSE IF At(it.state, idx) < idx
        THEN LET other == SwapWith(it, idx)
                 items == IF At(it.items, other) # At(it.items, idx)
                          THEN Swap(it.items, other, idx)
                          ELSE it.items
                 state == [it.state EXCEPT ![idx + 1] = @ + 1]
             IN  IF items \notin it.perms
                 THEN [iter |-> [it EXCEPT !.items = items, !.state = state,
                                           !.perms = @ \cup {items}],
                       idx |-> idx, value |-> SomeItem(items), done |-> TRUE]
                 ELSE [s EXCEPT !.iter = [it EXCEPT !.items = items, !.state = state],
                                !.idx = 1]
        ELSE [s EXCEPT !.iter = [it EXCEPT !.state[idx + 1] = 0], !.idx = idx + 1]

\* Up to 2^d iterations of the loop, until it is left.
RECURSIVE PermutationsIterations(_, _)
PermutationsIterations(s, d) ==
    IF s.done THEN s
    ELSE IF d = 0 THEN PermutationsIteration(s)
    ELSE PermutationsIterations(PermutationsIterations(s, d - 1), d - 1)

\* The while loop of PermutationsIterator::next, from idx on: the iterator it
\* leaves and the value next returns.  (The loop is left after fewer than
\* 2^(n * n) iterations, for n the number of items.)
PermutationsLoop(it, idx) ==
    LET s == PermutationsIterations(
                 [iter |-> it, idx |-> idx, value |-> NoItem, done |-> FALSE],
                 Len(it.items) * Len(it.items))
    IN  [iter |-> s.iter, value |-> s.value]

\* PermutationsIterator::next.
PermutationsNext(it) ==
    IF it.first
    THEN [iter |-> [it EXCEPT !.first = FALSE],
          value |-> IF it.items = <<>> THEN NoItem ELSE SomeItem(it.items)]
    ELSE PermutationsLoop(it, 1)

\* 1 << n.
RECURSIVE Shl1(_)
Shl1(n) == IF n = 0 THEN 1 ELSE 2 * Shl1(n - 1)

\* CombinationsIterator::new.
CombinationsNew(items) ==
    [kind |-> "combinations", input |-> items, items |-> items,
     count |-> Shl1(Len(items)) - 1]

\* A test of the bit above the lowest one.
BitSetSecond(mask) == (mask \div 2) % 2 = 1

\* (mask & 1) == 1.
BitSet(mask) == mask % 2 = 1

\* The while loop of CombinationsIterator::next: the vector res it builds.
RECURSIVE CombinationsLoop(_, _, _, _)
CombinationsLoop(items, res, idx, mask) ==
    IF mask = 0 THEN res
    ELSE CombinationsLoop(items,
                          IF BitSet(mask) THEN Append(res, At(items, idx)) ELSE res,
                          idx + 1, mask \div 2)

\* CombinationsIterator::next.
CombinationsNext(it) ==
    IF it.count = 0 THEN [iter |-> it, value |-> NoItem]
    ELSE [iter |-> [it EXCEPT !.count = @ - 1],
          value |-> SomeItem(CombinationsLoop(it.items, <<>>, 0, it.count))]

\* ChooseIterator::new: idx is (0..choose).collect().
ChooseNew(items, choose) ==
    [kind |-> "choose", input |-> items, items |-> items,
     idx |-> [i \in 1..choose |-> i - 1], choose |-> choose, len |-> Len(items),
     first |-> TRUE]

\* ChooseIterator::combo.
combo(it) == [i \in 1..Len(it.idx) |-> At(it.items, it.idx[i])]

\* The inner for loop of ChooseIterator::next over next in idx + 1..choose,
\* from next on: the indices it leaves, and whether it ran to its end (it
\* leaves by continue 'outer when an index reaches len).
RECURSIVE ChooseInner(_, _, _)
ChooseInner(it, ix, next) ==
    IF next >= it.choose THEN [idx |-> ix, ended |-> TRUE]
    ELSE LET moved == [ix EXCEPT ![next + 1] = At(ix, next - 1) + 1]
         IN  IF At(moved, next) = it.len
             THEN [idx |-> moved, ended |-> FALSE]
             ELSE ChooseInner(it, moved, next + 1)

\* An index that counts as past the end one place early.
ChoosePastEndEarly(it, i) == i >= it.len - 1

\* Whether an index of ChooseIterator has run past the last element.
ChoosePastEnd(it, i) == i = it.len

\* The outer for loop of ChooseIterator::next over idx in (0..choose).rev(),
\* from idx down: the indices it leaves and the value of complete.
RECURSIVE ChooseOuter(_, _, _)
ChooseOuter(it, ix, idx) ==
    IF idx < 0 THEN [idx |-> ix, complete |-> TRUE]
    ELSE LET bumped == [ix EXCEPT ![idx + 1] = @ + 1]
         IN  IF ChoosePastEnd(it, At(bumped, idx))
             THEN ChooseOuter(it, bumped, idx - 1)
             ELSE LET inner == ChooseInner(it, bumped, idx + 1)
                  IN  IF inner.ended
                      THEN [idx |-> inner.idx, complete |-> FALSE]
                      ELSE ChooseOuter(it, inner.idx, idx - 1)

\* ChooseIterator::next.
ChooseNext(it) ==
    IF it.items = <<>> \/ Len(it.items) < it.choose
    THEN [iter |-> it, value |-> NoItem]
    ELSE IF it.first
    THEN [iter |-> [it EXCEPT !.first = FALSE], value |-> SomeItem(combo(it))]
    ELSE LET outer == ChooseOuter(it, it.idx, it.choose - 1)
             moved == [it EXCEPT !.idx = outer.idx]
         IN  IF ~outer.complete
             THEN [iter |-> moved, value |-> SomeItem(combo(moved))]
             ELSE [iter |-> moved, value |-> NoItem]

\* The vectors the iterators are built on: up to MaxLen elements.  The
\* iterators only test their elements for equality (T: Clone + Hash + Eq), so
\* it is enough to take one vector of every pattern of equal elements: the
\* first element is 0 and every element is at most one more than the greatest
\* before it.
Vectors ==
    {v \in UNION {[1..n -> 0..(MaxLen - 1)] : n \in 0..MaxLen} :
        \A i \in DOMAIN v : \A x \in 0..(v[i] - 1) : \E j \in 1..(i - 1) : v[j] = x}

\* The caller takes what next() returned: it collects an item, and stops
\* calling after the first None.
Collect(r) ==
    /\ iter' = r.iter
    /\ IF r.value.some
       THEN yielded' = Append(yielded, r.value.item) /\ UNCHANGED exhausted
       ELSE exhausted' = TRUE /\ UNCHANGED yielded

\* A call of next() on the iterator that permutations() returned.
NextPermutation ==
    /\ iter.kind = "permutations"
    /\ ~exhausted
    /\ Collect(PermutationsNext(iter))

\* A call of next() on the iterator that combinations() returned.
NextCombination ==
    /\ iter.kind = "combinations"
    /\ ~exhausted
    /\ Collect(CombinationsNext(iter))

\* A call of next() on the iterator that choose(k) returned.
NextChoose ==
    /\ iter.kind = "choose"
    /\ ~exhausted
    /\ Collect(ChooseNext(iter))

\* An iterator fresh from permutations(), combinations() or choose(k), for k
\* up to one more than the longest vector.
InitIterators ==
    /\ \E items \in Vectors :
           \/ iter = PermutationsNew(items)
           \/ iter = CombinationsNew(items)
           \/ \E k \in 0..(MaxLen + 1) : iter = ChooseNew(items, k)
    /\ yielded = <<>>
    /\ exhausted = FALSE
    /\ NoSearch
    /\ NoDisjointSet
    /\ NoCall

NextIterators ==
    \/ (NextPermutation /\ UNCHANGED <<searchVars, dsVars, call>>)
    \/ (NextCombination /\ UNCHANGED <<searchVars, dsVars, call>>)
    \/ (NextChoose /\ UNCHANGED <<searchVars, dsVars, call>>)

SpecIterators == InitIterators /\ [][NextIterators]_vars

\* ---------------------------------------------------------------- math
\* The % of the integer types (on the non-negative values, with b not 0).
Rem(a, b) == a % b

\* A gcd that stops after its first step: the smaller argument, or the
\* greater one when the smaller is 0.
GcdOneStep(a, b) ==
    LET a1 == IF b > a THEN b ELSE a
        b1 == IF b > a THEN a ELSE b
    IN  IF b1 = 0 THEN a1 ELSE b1

\* gcd: a and b are swapped when b > a; then a = a % b and gcd(b, a % b).
RECURSIVE gcd(_, _)
gcd(a, b) ==
    LET a1 == IF b > a THEN b ELSE a
        b1 == IF b > a THEN a ELSE b
    IN  IF b1 = 0 THEN a1
        ELSE LET a2 == Rem(a1, b1) IN gcd(b1, Rem(a2, b1))

\* What a call returns: a value, or nothing because it panicked.
Value(v) == [panics |-> FALSE, value |-> v]
Panic == [panics |-> TRUE, value |-> 0]

\* The / of the integer types: a division by zero panics.
Div(a, b) == IF b = 0 THEN Panic ELSE Value(a \div b)

\* An lcm that divides the first argument alone by the gcd.
LcmFirstOnly(a, b) == Div(a, gcd(a, b))

\* lcm: a * b / gcd(a, b).
lcm(a, b) == Div(a * b, gcd(a, b))

\* ---------------------------------------------------------------- Dir
\* The integer types T that cardinals is modelled with, and their ranges.
Types == {"u8", "i8"}
MinOf(T) == IF T = "u8" THEN 0 ELSE -128
MaxOf(T) == IF T = "u8" THEN 255 ELSE 127

\* Option<T> and Option<Vec2D<T>>.
NoneT == [some |-> FALSE, value |-> 0]
SomeT(v) == [some |-> TRUE, value |-> v]

\* .map(|n| Vec2D(n, from.1)) and .map(|n| Vec2D(from.0, n)).
WithCol(o, c) == IF o.some THEN SomeT(<<o.value, c>>) ELSE NoneT
WithRow(r, o) == IF o.some THEN SomeT(<<r, o.value>>) ELSE NoneT

\* A checked_add that wraps around.
WrappingAdd(T, x, v) ==
    SomeT(IF x + v > MaxOf(T) THEN x + v - (MaxOf(T) - MinOf(T) + 1) ELSE x + v)

\* T::checked_add and T::checked_sub.
checked_add(T, x, v) == IF x + v > MaxOf(T) THEN NoneT ELSE SomeT(x + v)
checked_sub(T, x, v) == IF x - v < MinOf(T) THEN NoneT ELSE SomeT(x - v)

\* Dir::<T>::cardinals(&Vec2D(from[1], from[2])).
cardinals(T, from) ==
    LET one == 1
        up == WithCol(checked_sub(T, from[1], one), from[2])
        right == WithRow(from[1], checked_add(T, from[2], one))
        down == WithCol(checked_add(T, from[1], one), from[2])
        left == WithRow(from[1], checked_sub(T, from[2], one))
    IN  <<up, right, down, left>>

\* ---------------------------------------------------------------- Median
\* A slice &v[from..to] of the vector v: its bounds (counted from 0, to
\* excluded) and its elements.
Slice(v, from, to) == [from |-> from, to |-> to, elems |-> SubSeq(v, from + 1, to)]

\* A mid that gives the whole slice up to length 3.
ShortUpTo3(x) == x <= 3

\* The lengths for which Median::mid gives back the whole slice.
Short(x) == x <= 2

\* Median::mid.
mid(v) ==
    LET midpoint == Len(v) \div 2
        x == Len(v)
    IN  IF Short(x) THEN Slice(v, 0, x)
        ELSE IF x % 2 = 1 THEN Slice(v, midpoint, midpoint + 1)
        ELSE Slice(v, midpoint - 1, midpoint + 1)

\* ---------------------------------------------------------------- the calls
\* One call of gcd, lcm, Dir::cardinals or Median::mid: the functions keep
\* no state, so the model looks at one call of one of them at a time.
CallGcd ==
    /\ NoCall
    /\ \E a, b \in 0..MaxArg :
        call' = [fn |-> "gcd", args |-> <<a, b>>, ret |-> Value(gcd(a, b))]

CallLcm ==
    /\ NoCall
    /\ \E a, b \in 0..MaxArg :
        call' = [fn |-> "lcm", args |-> <<a, b>>, ret |-> lcm(a, b)]

CallCardinals ==
    /\ NoCall
    /\ \E T \in Types : \E r, c \in MinOf(T)..MaxOf(T) :
        call' = [fn |-> "cardinals", args |-> <<T, <<r, c>>>>,
                 ret |-> cardinals(T, <<r, c>>)]

CallMid ==
    /\ NoCall
    /\ \E v \in Vectors :
        call' = [fn |-> "mid", args |-> <<v>>, ret |-> mid(v)]

\* The predecessor maps over Nodes: every HashMap<S, S> with keys and values
\* in Nodes.
Maps == UNION {[D -> Nodes] : D \in SUBSET Nodes}

CallGetPath ==
    /\ NoCall
    /\ \E m \in Maps : \E end \in Nodes : \E st \in Nodes :
        call' = [fn |-> "get_path", args |-> <<m, end, st>>,
                 ret |-> get_path(m, end, st)]

\* Nothing was called yet, and neither a search, a DisjointSet nor an
\* iterator is in use.
InitFunctions ==
    /\ NoCall
    /\ NoSearch
    /\ NoDisjointSet
    /\ NoIterator

NextFunctions ==
    \/ (CallGcd /\ UNCHANGED <<searchVars, dsVars, iterVars>>)
    \/ (CallLcm /\ UNCHANGED <<searchVars, dsVars, iterVars>>)
    \/ (CallCardinals /\ UNCHANGED <<searchVars, dsVars, iterVars>>)
    \/ (CallMid /\ UNCHANGED <<searchVars, dsVars, iterVars>>)
    \/ (CallGetPath /\ UNCHANGED <<searchVars, dsVars, iterVars>>)

SpecFunctions == InitFunctions /\ [][NextFunctions]_vars

\* ---------------------------------------------------------------- reference
\* What the claims measure the searches against: reachability, fewest edges
\* and least total weight in the graph that moves and weight describe,
\* computed by fixpoint iteration, apart from the searches.
GoalReachable == Reachable(start) \cap goals # {}

Min(S) == CHOOSE x \in S : \A y \in S : x <= y

\* "No path" as a cost.
Infinity == UsizeMax

\* One round of relaxation of every edge: w(u, v) is the cost of edge u -> v.
RelaxAll(d, w(_, _)) ==
    [v \in Nodes |->
        Min({d[v]} \cup {d[u] + w(u, v) : u \in {x \in Nodes : d[x] # Infinity
                                                               /\ v \in Succ(x)}})]

RECURSIVE Relaxed(_, _, _)
Relaxed(d, w(_, _), rounds) ==
    IF rounds = 0 THEN d ELSE Relaxed(RelaxAll(d, w), w, rounds - 1)

\* Least total cost of a path from src to every node (Infinity: no path).
Least(src, w(_, _)) ==
    Relaxed([v \in Nodes |-> IF v = src THEN 0 ELSE Infinity], w, Cardinality(Nodes))

\* Least total weight from src to each node, and fewest edges.
MinCost(src) == Least(src, weight)
MinEdges(src) == Least(src, LAMBDA u, v : 1)

\* Least total weight (fewest edges) from src to a node satisfying is_done.
MinCostToGoal(src) == Min({Infinity} \cup {MinCost(src)[g] : g \in goals})
MinEdgesToGoal(src) == Min({Infinity} \cup {MinEdges(src)[g] : g \in goals})

\* h never exceeds the least remaining cost to a goal.
Admissible(h) == \A n \in Nodes : h[n] <= MinCostToGoal(n)

\* The state right after a call of f returned: no later function was called.
Returned(f) ==
    /\ fn = "none"
    /\ Len(ret[f]) > 0
    /\ \A g \in Range(Functions) :
           g # f /\ Len(ret[g]) > 0 =>
               \E i, j \in DOMAIN Functions :
                   i < j /\ Functions[i] = g /\ Functions[j] = f

\* What the latest call of f returned.
Result(f) == ret[f][Len(ret[f])]

\* The node a returned path ends in.
End(r) == r.path[Len(r.path)]

\* The number of edges of a returned path.
Edges(r) == Len(r.path) - 1

\* ---------------------------------------------------------------- claims
\* C1: when a goal is reachable from start, dijkstra returns Some((dist, path))
\* in which dist of the goal reached (the last node of path) and dist of every
\* node that was popped and expanded equal the least total weight of a path
\* from start to that node.
C1_DijkstraLeastCost ==
    Returned("dijkstra") /\ GoalReachable =>
        LET r == Result("dijkstra") IN
        /\ r.some
        /\ \A n \in expanded \cup {End(r)} : r.dist[n] = MinCost(start)[n]

\* A run of dijkstra that expanded two nodes, dropped nothing of the graph and
\* returned a path of two edges that is cheaper than the direct edge.
C1_Witness ==
    /\ Returned("dijkstra")
    /\ Result("dijkstra").some
    /\ Len(Result("dijkstra").path) = 3
    /\ Cardinality(expanded) = 2
    /\ End(Result("dijkstra")) \in Succ(start)
    /\ weight(start, End(Result("dijkstra")))
           > Result("dijkstra").dist[End(Result("dijkstra"))]

\* C2: with an admissible heuristic, a_star returns (when a goal is reachable)
\* Some((dist, path)) whose dist of the goal reached equals the least total
\* weight of a path from start to any node satisfying is_done.
C2_AStarLeastCost ==
    Returned("a_star") /\ Admissible(heuristic) /\ GoalReachable =>
        LET r == Result("a_star") IN
        /\ r.some
        /\ r.dist[End(r)] = MinCostToGoal(start)

\* a_star returned a path of two edges under an admissible heuristic that is
\* not zero everywhere.
C2_Witness ==
    /\ Returned("a_star")
    /\ Admissible(heuristic)
    /\ heuristic # ZeroHeuristic
    /\ Result("a_star").some
    /\ Len(Result("a_star").path) = 3

\* C3: when bfs returns Some(path), the number of edges of path is the least
\* number of edges of a path from start to any node satisfying is_done.
C3_BfsFewestEdges ==
    Returned("bfs") /\ Result("bfs").some =>
        Edges(Result("bfs")) = MinEdgesToGoal(start)

\* bfs returned a path of two edges in a graph with a cycle through start.
C3_Witness ==
    /\ Returned("bfs")
    /\ Result("bfs").some
    /\ Edges(Result("bfs")) = 2
    /\ \E n \in Nodes : n # start /\ start \in Succ(n) /\ n \in Reachable(start)

\* C4: dfs returns Some(path) whenever a node satisfying is_done is reachable
\* from start (goals more than zero edges away included), and None only when
\* none is reachable.
C4_DfsFindsReachableGoal ==
    Returned("dfs") => (Result("dfs").some <=> GoalReachable)

\* C5: when no node satisfying is_done is reachable from start, each of dfs,
\* bfs, dijkstra and a_star (with any heuristic) returns None.
C5_UnreachableIsNone ==
    \A f \in Range(Functions) :
        Returned(f) /\ ~GoalReachable => Result(f) = None

\* a_star gave up after it expanded two nodes, with a goal node in the graph
\* that start does not reach and a heuristic that is not zero.
C5_Witness ==
    /\ Returned("a_star")
    /\ ~GoalReachable
    /\ goals # {}
    /\ Cardinality(expanded) >= 2
    /\ heuristic # ZeroHeuristic
    /\ ~Result("a_star").some

\* C6: whenever dfs, bfs, dijkstra or a_star returns a path, its first element
\* is the start node and its last element satisfies is_done.
C6_PathFromStartToGoal ==
    \A f \in Range(Functions) :
        Returned(f) /\ Result(f).some =>
            LET r == Result(f) IN
            /\ Len(r.path) >= 1
            /\ r.path[1] = start
            /\ is_done(End(r))

\* dijkstra returned a path of two edges.
C6_Witness ==
    /\ Returned("dijkstra")
    /\ Result("dijkstra").some
    /\ Len(Result("dijkstra").path) = 3

\* C7: a_star with the heuristic that is constantly 0 and dijkstra agree:
\* both return None, or both return Some and the cost each records for the
\* goal it reached is the same, least, value.
C7_ZeroHeuristicAgrees ==
    Returned("a_star") /\ heuristic = ZeroHeuristic =>
        LET a == Result("a_star")
            d == ret["dijkstra"][1]
        IN  /\ a.some = d.some
            /\ a.some => /\ a.dist[End(a)] = d.dist[End(d)]
                         /\ a.dist[End(a)] = MinCostToGoal(start)

\* a_star with the zero heuristic and dijkstra both returned a path, of a cost
\* of 1 or more.
C7_Witness ==
    /\ Returned("a_star")
    /\ heuristic = ZeroHeuristic
    /\ Result("a_star").some
    /\ ret["dijkstra"][1].some
    /\ Result("a_star").dist[End(Result("a_star"))] >= 1

\* C8: when dfs returns a path, bfs returns a path too, of no more edges.
C8_BfsNoLongerThanDfs ==
    Returned("bfs") /\ ret["dfs"][1].some =>
        /\ Result("bfs").some
        /\ Edges(Result("bfs")) <= Edges(ret["dfs"][1])

\* dfs and bfs both returned a path.
C8_Witness ==
    /\ Returned("bfs")
    /\ ret["dfs"][1].some
    /\ Result("bfs").some

\* C9: two calls of the same search function on the same graph, start node
\* and heuristic return the same result (path and cost map).
C9_SameResultTwice ==
    \A f \in Range(Functions) :
        Len(ret[f]) = 2 => ret[f][1] = ret[f][2]

\* a_star returned twice, a path of one edge or more, in a graph where another
\* goal node is as cheap to reach as the one the path ends in.
C9_Witness ==
    /\ Returned("a_star")
    /\ Len(ret["a_star"]) = 2
    /\ Result("a_star").some
    /\ Len(Result("a_star").path) >= 2
    /\ \E g \in goals :
           /\ g # End(Result("a_star"))
           /\ MinCost(start)[g] = Result("a_star").dist[End(Result("a_star"))]

\* The elements that the nodes ns put in one tree with x.
TreeOf(ns, x) ==
    {y \in DOMAIN ns : find_root(ns, y).root = find_root(ns, x).root}

\* C10: union(left, right) returns true exactly when left and right were in
\* different sets (not connected by the earlier unions); after it,
\* find_root(left) equals find_root(right), and the sets of the elements
\* outside the two sets are unchanged.
C10_Union ==
    [][last'.call = "union" =>
          LET left == last'.left
              right == last'.right
              touched == SetOf(sets, left) \cup SetOf(sets, right)
          IN  /\ last'.value = (SetOf(sets, left) # SetOf(sets, right))
              /\ find_root(nodes', left).root = find_root(nodes', right).root
              /\ \A x \in (DOMAIN nodes) \ touched :
                     /\ TreeOf(nodes', x) = TreeOf(nodes, x)
                     /\ TreeOf(nodes', x) = SetOf(sets, x)]_vars

\* union returned false for two different elements of one set of three, which
\* an element in between links (its parent is not the root), next to another set.
C10_Witness ==
    /\ last.call = "union"
    /\ last.value = FALSE
    /\ last.left # last.right
    /\ Cardinality(SetOf(sets, last.left)) = 3
    /\ Cardinality(sets) = 2
    /\ \E x \in DOMAIN nodes : nodes[x].parent # x /\ nodes[nodes[x].parent].parent # nodes[x].parent

\* How many times x occurs in the sequence s.
Count(s, x) == Cardinality({i \in DOMAIN s : s[i] = x})

\* Whether no two elements of the sequence s are equal.
NoRepeats(s) == \A i, j \in DOMAIN s : s[i] = s[j] => i = j

\* The distinct arrangements of the elements of v.
Arrangements(v) ==
    {p \in [1..Len(v) -> Range(v)] : \A x \in Range(v) : Count(p, x) = Count(v, x)}

RECURSIVE Factorial(_)
Factorial(n) == IF n = 0 THEN 1 ELSE n * Factorial(n - 1)

\* C11: the permutations() iterator, run until it returns None, yields for a
\* non-empty input every distinct arrangement of the input's elements exactly
\* once (n! items when the n elements are distinct, 1 item when they are all
\* equal), the first item being the input in its original order; for an empty
\* input it yields no item.
C11_Permutations ==
    (iter.kind = "permutations" /\ exhausted) =>
        IF iter.input = <<>> THEN yielded = <<>>
        ELSE /\ yielded[1] = iter.input
             /\ NoRepeats(yielded)
             /\ Range(yielded) = Arrangements(iter.input)
             /\ NoRepeats(iter.input) => Len(yielded) = Factorial(Len(iter.input))
             /\ Cardinality(Range(iter.input)) = 1 => Len(yielded) = 1

\* The iterator ran to its None on an input of three or more elements with two
\* equal elements among them, after it yielded more than three items.
C11_Witness ==
    /\ iter.kind = "permutations"
    /\ exhausted
    /\ Len(iter.input) >= 3
    /\ ~NoRepeats(iter.input)
    /\ Len(yielded) > 3

\* The elements of v at the positions of the set S, in the order of v.
Pick(v, S) ==
    LET F[i \in 0..Len(v)] ==
            IF i = 0 THEN <<>>
            ELSE IF i \in S THEN Append(F[i - 1], v[i]) ELSE F[i - 1]
    IN  F[Len(v)]

\* Whether the sequence ys lists the selections Pick(v, S) for the sets S of
\* Sel, every one of them once (selections of different positions that read
\* the same are listed as often as there are such selections).
ListsEachOnce(ys, v, Sel) ==
    /\ Len(ys) = Cardinality(Sel)
    /\ \A S \in Sel :
           Count(ys, Pick(v, S)) = Cardinality({R \in Sel : Pick(v, R) = Pick(v, S)})

\* The number of k-element subsets of a set of n elements.
Binomial(n, k) == Factorial(n) \div (Factorial(k) * Factorial(n - k))

\* C12: for an input of length n and 1 <= k <= n, the choose(k) iterator, run
\* until it first returns None, yields exactly the C(n, k) selections of k
\* distinct positions of the input, each once and each listing its elements in
\* input order; when k > n or the input is empty it yields no item.
C12_Choose ==
    (iter.kind = "choose" /\ exhausted /\ iter.choose >= 1) =>
        LET n == Len(iter.input)
            k == iter.choose
        IN  IF k > n \/ n = 0 THEN yielded = <<>>
            ELSE /\ Len(yielded) = Binomial(n, k)
                 /\ ListsEachOnce(yielded, iter.input,
                                  {S \in SUBSET (1..n) : Cardinality(S) = k})

\* choose(2) ran to its None on an input of four or more elements with two
\* equal elements among them.
C12_Witness ==
    /\ iter.kind = "choose"
    /\ exhausted
    /\ iter.choose = 2
    /\ Len(iter.input) >= 4
    /\ ~NoRepeats(iter.input)
    /\ Len(yielded) >= 6

\* C13: the combinations() iterator yields for an input of length n exactly
\* 2^n - 1 items: every non-empty selection of positions of the input once,
\* each listing its elements in input order; for an empty input it yields no
\* item.
C13_Combinations ==
    (iter.kind = "combinations" /\ exhausted) =>
        LET n == Len(iter.input)
        IN  /\ Len(yielded) = Shl1(n) - 1
            /\ ListsEachOnce(yielded, iter.input, (SUBSET (1..n)) \ {{}})
            /\ n = 0 => yielded = <<>>

\* combinations() ran to its None on an input of three or more elements, not
\* all of them equal, after it yielded seven items or more.
C13_Witness ==
    /\ iter.kind = "combinations"
    /\ exhausted
    /\ Len(iter.input) >= 3
    /\ Cardinality(Range(iter.input)) >= 2
    /\ Len(yielded) >= 7

\* Whether d divides n.
Divides(d, n) == n % d = 0

\* C14: for non-negative a and b, gcd(a, b) terminates and returns the greatest
\* common divisor of a and b, with gcd(0, b) = gcd(b, 0) = b; the result does
\* not depend on the order of the arguments.
C14_Gcd ==
    call.fn = "gcd" =>
        LET a == call.args[1]
            b == call.args[2]
            g == call.ret.value
        IN  /\ ~call.ret.panics
            /\ a = 0 => g = b
            /\ b = 0 => g = a
            /\ (a > 0 \/ b > 0) =>
                   /\ g > 0 /\ Divides(g, a) /\ Divides(g, b)
                   /\ \A d \in 1..MaxArg : (Divides(d, a) /\ Divides(d, b)) => d <= g
            /\ gcd(b, a) = g

\* gcd was called on a smaller and a greater number, neither of which divides
\* the other, and which have a common divisor above 1.
C14_Witness ==
    /\ call.fn = "gcd"
    /\ 0 < call.args[1] /\ call.args[1] < call.args[2]
    /\ ~Divides(call.args[1], call.args[2])
    /\ call.ret.value > 1

\* C15: for non-negative a and b, lcm(a, b) returns the least common multiple
\* of a and b, and returns 0 whenever at least one of a, b is 0.
C15_Lcm ==
    call.fn = "lcm" =>
        LET a == call.args[1]
            b == call.args[2]
            m == call.ret.value
        IN  /\ ~call.ret.panics
            /\ (a = 0 \/ b = 0) => m = 0
            /\ (a > 0 /\ b > 0) =>
                   /\ m > 0 /\ Divides(a, m) /\ Divides(b, m)
                   /\ \A x \in 1..(a * b) : (Divides(a, x) /\ Divides(b, x)) => m <= x

\* The neighbour when the coordinate that changes, moved to x, stays inside
\* the range of T, None when it does not.
Neighbour(T, x, vec) == IF x < MinOf(T) \/ x > MaxOf(T) THEN NoneT ELSE SomeT(vec)

\* C16: Dir::cardinals(&Vec2D(r, c)) returns the four neighbours in the order
\* north, east, south, west, [(r-1, c), (r, c+1), (r+1, c), (r, c-1)], where
\* an entry is None exactly when its changed coordinate would overflow or
\* underflow the integer type T and is Some of that neighbour otherwise.
C16_Cardinals ==
    call.fn = "cardinals" =>
        LET T == call.args[1]
            r == call.args[2][1]
            c == call.args[2][2]
        IN  call.ret = << Neighbour(T, r - 1, <<r - 1, c>>),
                          Neighbour(T, c + 1, <<r, c + 1>>),
                          Neighbour(T, r + 1, <<r + 1, c>>),
                          Neighbour(T, c - 1, <<r, c - 1>>) >>

\* cardinals was called in the corner of the least row and the greatest
\* column of a type: north and east are None, south and west are not.
C16_Witness ==
    /\ call.fn = "cardinals"
    /\ call.args[2] = <<MinOf(call.args[1]), MaxOf(call.args[1])>>
    /\ ~call.ret[1].some /\ ~call.ret[2].some
    /\ call.ret[3].some /\ call.ret[4].some

MayPop == IF fn \in {"dijkstra", "a_star"} THEN Greatest(heap) ELSE {}

\* C18 as stated: the frontier of dijkstra and a_star pops in ascending order
\* of cost, and among entries of equal cost in ascending order of the node:
\* of two entries with the same minimal cost, the one whose node is smaller is
\* popped first.
C18_SmallerNodeFirst ==
    \A e \in MayPop : \A o \in BagToSet(heap) :
        e.cost < o.cost \/ (e.cost = o.cost /\ e.node <= o.node)

\* C18, amended: ascending order of cost, and among entries of equal cost
\* descending order of the node: of two entries with the same minimal cost,
\* the one whose node is greater is popped first.
C18_GreaterNodeFirst ==
    \A e \in MayPop : \A o \in BagToSet(heap) :
        e.cost < o.cost \/ (e.cost = o.cost /\ e.node >= o.node)

\* The frontier of dijkstra holds two entries of the same, least, cost for
\* different nodes, the smaller of which is a goal node: the pop that comes
\* returns the greater node.
C18_Witness ==
    /\ fn = "dijkstra"
    /\ \E e, o \in BagToSet(heap) :
           /\ e.node < o.node /\ e.cost = o.cost
           /\ is_done(e.node)
           /\ \A y \in BagToSet(heap) : e.cost <= y.cost
           /\ MayPop = {o}

\* The node that k predecessor entries lead to from n (n itself for k = 0);
\* -1 when the entries end before.
RECURSIVE Back(_, _, _)
Back(m, n, k) ==
    IF k = 0 THEN n
    ELSE IF n \in DOMAIN m THEN Back(m, m[n], k - 1)
    ELSE -1

\* Whether following the entries of the predecessor map m from a node never
\* returns to that node.
Acyclic(m) ==
    \A n \in DOMAIN m : \A k \in 1..Cardinality(DOMAIN m) : Back(m, n, k) # n

\* C19: in every run of dfs, bfs, dijkstra and a_star, at every step the
\* predecessor map is acyclic: following predecessor entries from any node
\* never returns to that node, and the start node never receives a
\* predecessor entry.
C19_PredecessorsAcyclic ==
    fn # "none" => (Acyclic(path) /\ start \notin DOMAIN path)

\* C20: in dfs, the first time a node is popped from the stack it is processed
\* (tested with is_done and, if it is not a goal, expanded through moves), even
\* if it was pushed several times before; only later pops of that node are
\* skipped.  (If every first pop is processed, the nodes popped before are the
\* nodes expanded before: a pop of a node that was not expanded yet is a first
\* pop.)
C20_FirstPopProcessed ==
    [][(fn = "dfs" /\ to_visit # <<>> /\ to_visit[Len(to_visit)] \notin expanded) =>
           LET node == to_visit[Len(to_visit)]
           IN  IF is_done(node)
               THEN fn' = "none" /\ ret'["dfs"][Len(ret'["dfs"])].some
               ELSE node \in expanded']_vars

\* The frontier entry that the next pop returns is stale: it is for a node
\* that is not a goal and was pushed when the cost recorded for the node was
\* greater than the cost recorded now.  (dijkstra pushes a node with its cost
\* so far, a_star with its cost so far plus heuristic(node).)
StalePop(e) ==
    /\ e \in MayPop
    /\ ~is_done(e.node)
    /\ e.cost > dist[e.node] + (IF fn = "a_star" THEN heuristic[e.node] ELSE 0)

\* C21: in a_star, popping an entry for a non-goal node that was pushed when
\* the node's cost so far was greater than the cost so far recorded now
\* discards it: that pop changes no distance entry, changes no predecessor
\* entry and pushes nothing onto the frontier, for every heuristic.
C21_AStarStalePopDiscards ==
    [][\A e \in BagToSet(heap) :
           (fn = "a_star" /\ StalePop(e)) =>
               (dist' = dist /\ path' = path /\ heap' = Popped(heap, e))]_vars

\* a_star, under a heuristic that is not zero, is about to pop a stale entry
\* for a node that has a neighbour.
C21_Witness ==
    /\ fn = "a_star"
    /\ \E n \in Nodes : heuristic[n] > 0
    /\ \E e \in BagToSet(heap) : StalePop(e) /\ moves(e.node) # <<>>

\* C22: in dijkstra, popping an entry for a non-goal node whose cost is greater
\* than the distance recorded for that node discards it: the distance map, the
\* predecessor map and the frontier (apart from the removal of that entry) are
\* left unchanged and the node's neighbours are not relaxed.
C22_DijkstraStalePopDiscards ==
    [][\A e \in BagToSet(heap) :
           (fn = "dijkstra" /\ StalePop(e)) =>
               /\ dist' = dist /\ path' = path /\ index' = index
               /\ heap' = Popped(heap, e)
               /\ looped' = {}]_vars

\* dijkstra is about to pop a stale entry for a node that has a neighbour.
C22_Witness ==
    /\ fn = "dijkstra"
    /\ \E e \in BagToSet(heap) : StalePop(e) /\ moves(e.node) # <<>>

\* The distance recorded for node n in the map d: usize::MAX when the node
\* was not seen yet.
Recorded(d, n) == IF n \in DOMAIN d THEN d[n] ELSE UsizeMax

\* The entries that a step pushed onto the frontier (a step pops one entry).
Pushed ==
    {x \in BagToSet(heap') :
        CopiesIn(x, heap') > CopiesIn(x, heap) - (IF x \in MayPop THEN 1 ELSE 0)}

\* C23: in dijkstra and a_star, the distance recorded for a node never
\* increases once the node has been relaxed, and a node's predecessor entry is
\* written only in a step in which its recorded distance strictly decreases: a
\* candidate of cost equal to the recorded distance changes neither the
\* distance nor the predecessor and pushes nothing (first-found wins among
\* equal-cost paths).
C23_StrictImprovementOnly ==
    [][(fn \in {"dijkstra", "a_star"} /\ fn' = fn) =>
           /\ \A n \in DOMAIN dist : n \in DOMAIN dist' /\ dist'[n] <= dist[n]
           /\ \A n \in DOMAIN path :
                  n \in DOMAIN path' /\ (path'[n] # path[n] => dist'[n] < dist[n])
           /\ \A n \in (DOMAIN path') \ (DOMAIN path) : dist'[n] < Recorded(dist, n)
           /\ \A x \in Pushed : dist'[x.node] < Recorded(dist, x.node)]_vars

\* dijkstra looped over the moves of a node that offers a neighbour a path as
\* cheap as the one recorded for it through another node: the neighbour kept
\* the predecessor it had.
C23_Witness ==
    /\ fn = "dijkstra"
    /\ \E u \in looped : \E i \in DOMAIN moves(u) :
           LET v == moves(u)[i]
           IN  /\ v \in DOMAIN path /\ path[v] # u /\ v # u
               /\ dist[u] + weight(u, v) = dist[v]
               /\ dist[v] > 0

\* Every call the caller makes has returned.
AllReturned ==
    /\ fn = "none"
    /\ \A f \in Range(Functions) : Len(ret[f]) = calls

\* No call returned out of a get_path that cannot end.
NoneDiverged ==
    \A f \in Range(Functions) : \A i \in DOMAIN ret[f] : ret[f][i].path # Diverges

\* C24: on every graph whose set of nodes reachable from start is finite
\* (cycles, self-loops and zero-weight edges included), each of dfs, bfs,
\* dijkstra and a_star eventually terminates, returning either a path or None.
C24_Terminates == <>(AllReturned /\ NoneDiverged)

\* All four searches returned None on a graph in which start lies on a cycle
\* of two or more nodes whose edges all have weight 0.
C24_Witness ==
    /\ AllReturned
    /\ \A f \in Range(Functions) : ~Result(f).some
    /\ \E n \in Nodes \ {start} :
           /\ n \in Succ(start) /\ start \in Succ(n)
           /\ weight(start, n) = 0 /\ weight(n, start) = 0

\* The chain of predecessor entries from the last node of found backward,
\* ended by start or by a node without an entry; <<>> when there is no such
\* end (the entries run in a cycle that does not hold start).
RECURSIVE ChainFrom(_, _, _)
ChainFrom(m, found, st) ==
    LET cur == found[Len(found)] IN
    IF cur = st \/ cur \notin DOMAIN m THEN found
    ELSE IF Len(found) > Cardinality(DOMAIN m) THEN <<>>
    ELSE ChainFrom(m, Append(found, m[cur]), st)

\* C25: get_path(moves, end, start) returns, in start-to-end order, the chain
\* of predecessor entries walked backward from end up to the first node that
\* is start (included) or has no entry; the last element of the result is
\* end, and when end = start the result is [start] whatever the map holds.
C25_GetPath ==
    call.fn = "get_path" =>
        LET m == call.args[1]
            end == call.args[2]
            st == call.args[3]
            found == call.ret
        IN  /\ found = Reverse(ChainFrom(m, <<end>>, st))
            /\ found # <<>> /\ found[Len(found)] = end
            /\ end = st => found = <<st>>

\* The same for the calls whose end is not start and whose chain has an end:
\* there get_path returns what the claim says.
C25_EndNotStart ==
    (call.fn = "get_path" /\ call.args[2] # call.args[3]
         /\ ChainFrom(call.args[1], <<call.args[2]>>, call.args[3]) # <<>>) =>
        /\ call.ret = Reverse(ChainFrom(call.args[1], <<call.args[2]>>, call.args[3]))
        /\ call.ret[Len(call.ret)] = call.args[2]

\* get_path was called with end = start on a map with an entry for start.
C25_StartHasEntry ==
    /\ call.fn = "get_path"
    /\ call.args[2] = call.args[3]
    /\ call.args[3] \in DOMAIN call.args[1]
    /\ call.ret # <<call.args[3]>>

\* Whether every consecutive pair (u, v) of p has v in moves(u).
IsWalk(p) == \A i \in 1..(Len(p) - 1) : p[i + 1] \in Succ(p[i])

\* The sum of weight(u, v) over the consecutive pairs of p.
RECURSIVE WeightSum(_)
WeightSum(p) ==
    IF Len(p) <= 1 THEN 0 ELSE weight(p[1], p[2]) + WeightSum(Tail(p))

\* C26: whenever dijkstra or a_star (with any heuristic, admissible or not)
\* returns Some((dist, path)), path is a walk of the graph and the weights of
\* its edges add up to dist of its last node.
C26_PathIsWalkOfItsCost ==
    \A f \in {"dijkstra", "a_star"} :
        Returned(f) /\ Result(f).some =>
            LET r == Result(f) IN
            /\ r.path # <<>> /\ r.path # Diverges
            /\ IsWalk(r.path)
            /\ WeightSum(r.path) = r.dist[End(r)]

\* a_star returned, under a heuristic that is not admissible, a path of
\* positive cost that is not a cheapest one.
C26_Witness ==
    /\ Returned("a_star")
    /\ ~Admissible(heuristic)
    /\ Result("a_star").some
    /\ WeightSum(Result("a_star").path) > MinCostToGoal(start)

====
